---- MODULE Spec2Model ----
(***************************************************************************)
(* Structural equality of weighted finite-state automata                   *)
(* (rayuela/fsa/fsa_testing.py): the comparison function                   *)
(* fsa_structural_equality_report, the arc extractor _arcs and the report   *)
(* value _FSAStructuralEqualityReport with its verdict and its __eq__.      *)
(*                                                                         *)
(* Values.  A State is a small integer, a Weight and a Symbol are opaque    *)
(* strings compared by value; the weights of the two semirings are distinct *)
(* values.  An acceptor arc label is the 1-tuple <<a>>                      *)
(* and a transducer arc label the pair <<a, b>>, so that, as in Python, a   *)
(* symbol never equals a pair of symbols.  A message is a tuple holding the *)
(* fixed text of the f-string and the values it interpolates.  A dict is a  *)
(* sequence of [key, values] records in insertion order.                    *)
(***************************************************************************)
EXTENDS Integers, Sequences, FiniteSets, TLC

VARIABLES fsa1, fsa2, pc, report, swapped, selfrep, r1, r2, eq12, eq21

vars == <<fsa1, fsa2, pc, report, swapped, selfrep, r1, r2, eq12, eq21>>

(***************************************************************************)
(* Bounds of the model.                                                    *)
(***************************************************************************)
\* at most this many arcs in one automaton's transition table
MaxArcs == 1
\* the two operands differ in at most this many places (see Diff)
MaxDiff == 2
\* at most this many messages in one section of a hand-built report
MaxMsgs == 2

States == {0, 1}
Symbols == {"a"}
Semirings == {"Boolean", "Real"}
\* the weights of a semiring: its zero and another one
WeightsOf(R) == IF R = "Boolean" THEN {"False", "True"} ELSE {"0.0", "1.0"}
\* the zero of a semiring
Zero(R) == IF R = "Boolean" THEN "False" ELSE "0.0"
\* the value a weight holds, in tenths: False and True are the numbers 0 and 1
score(w) ==
    CASE w = "False" -> 0 [] w = "True" -> 10
      [] w = "0.0" -> 0 [] w = "1.0" -> 10 [] w = "2.0" -> 20 [] w = "2.5" -> 25
      [] w = "8.0" -> 80 [] w = "25.0" -> 250 [] w = "29.0" -> 290
      [] w = "35.0" -> 350 [] w = "43.0" -> 430 [] w = "43.1" -> 431
\* w1 != w2: two weights are equal when they hold the same value, whatever
\* their semirings (Boolean(False) == Real(0.0))
ne(w1, w2) == score(w1) # score(w2)
\* title=None, the default
NoTitle == "None"
\* message strings and section keys of hand-built reports
Messages == {"m1", "m2"}
Categories == {"states", "arcs"}

\* the permutations of a finite set, as sequences: the orders in which a
\* Python set can be iterated
Perms(S) ==
    {s \in [1..Cardinality(S) -> S] : \A i, j \in 1..Cardinality(S) : s[i] = s[j] => i = j}

(***************************************************************************)
(* The automata (rayuela.fsa.fsa.FSA, rayuela.fsa.fst.FST): data given to   *)
(* the comparison.                                                         *)
(***************************************************************************)
\* the arc labels an automaton of this kind can carry
LabelsOf(kind, Sigma, Omega) ==
    IF kind = "FST" THEN {<<a, b>> : a \in Sigma, b \in Omega}
    ELSE {<<a>> : a \in Sigma}

\* the transition table as the nested mapping State -> Label -> State -> Weight
\* of a flat map from (source, label, target) to weight
Nested(flat) ==
    [i \in {t[1] : t \in DOMAIN flat} |->
        [ab \in {t[2] : t \in {u \in DOMAIN flat : u[1] = i}} |->
            [j \in {t[3] : t \in {u \in DOMAIN flat : u[1] = i /\ u[2] = ab}} |->
                flat[<<i, ab, j>>]]]]

FlatTables(Q, L, R) ==
    UNION {[T -> WeightsOf(R)] : T \in {X \in SUBSET (Q \X L \X Q) : Cardinality(X) <= MaxArcs}}

\* the initial- or final-weight mappings over the states Q: a mapping holds the
\* states that were given a weight (set_I, set_F), here a weight other than
\* zero, and no other key
WeightMaps(Q, R) == UNION {[D -> WeightsOf(R) \ {Zero(R)}] : D \in SUBSET Q}

\* acceptors: no output alphabet; the weight mappings have the implicit
\* default of the repository's automata
Acceptors ==
    UNION {UNION {
        {[kind |-> "FSA", R |-> R, Sigma |-> Sigma, Q |-> Q, implicit_default |-> TRUE,
          lam |-> lam, rho |-> rho, delta |-> Nested(flat)] :
            lam \in WeightMaps(Q, R), rho \in WeightMaps(Q, R),
            flat \in FlatTables(Q, LabelsOf("FSA", Sigma, {}), R)}
        : Q \in SUBSET States, R \in Semirings} : Sigma \in SUBSET Symbols}

\* transducers: an output alphabet Omega beside the input alphabet
Transducers ==
    UNION {UNION {UNION {
        {[kind |-> "FST", R |-> R, Sigma |-> Sigma, Omega |-> Omega, Q |-> Q,
          implicit_default |-> TRUE, lam |-> lam, rho |-> rho, delta |-> Nested(flat)] :
            lam \in WeightMaps(Q, R), rho \in WeightMaps(Q, R),
            flat \in FlatTables(Q, LabelsOf("FST", Sigma, Omega), R)}
        : Q \in SUBSET States, R \in Semirings} : Sigma \in SUBSET Symbols} : Omega \in SUBSET Symbols}

Automata == Acceptors \cup Transducers

\* the automaton with weight mappings that hold exactly its own states, each
\* with its weight, and have no implicit default for any other state
WithoutDefault(fsa) ==
    [fsa EXCEPT !.implicit_default = FALSE,
                !.lam = [q \in fsa.Q |-> IF q \in DOMAIN fsa.lam THEN fsa.lam[q] ELSE Zero(fsa.R)],
                !.rho = [q \in fsa.Q |-> IF q \in DOMAIN fsa.rho THEN fsa.rho[q] ELSE Zero(fsa.R)]]

\* isinstance(fsa, FST)
IsFST(fsa) == fsa.kind = "FST"

\* what a lookup that raises gives in place of a weight
Raises == "KeyError"

\* fsa.λ[q], fsa.ρ[q]: the weight the state was given.  For a state that was
\* given none, of the automaton or not, the mapping of the repository's
\* automata gives the zero of the semiring and does not raise (the tests
\* compare automata whose state sets differ and automata most of whose states
\* were given no weight); a mapping without a default raises KeyError
Lookup(mapping, key, fsa) ==
    IF key \in DOMAIN mapping THEN mapping[key]
    ELSE IF fsa.implicit_default THEN Zero(fsa.R)
    ELSE Raises

(***************************************************************************)
(* Dicts of lists, in insertion order (collections.defaultdict(list)).     *)
(***************************************************************************)
keys(d) == {d[n].key : n \in DOMAIN d}

\* d[key], for a key the dict holds
values(d, key) == d[CHOOSE n \in DOMAIN d : d[n].key = key].values

\* mismatches[key].append(msg): a key not yet held is created with an empty
\* list, after the keys already there
append(d, key, msg) ==
    IF key \in keys(d)
    THEN [n \in DOMAIN d |->
            IF d[n].key = key
            THEN [key |-> key, values |-> Append(d[n].values, msg)]
            ELSE d[n]]
    ELSE Append(d, [key |-> key, values |-> <<msg>>])

(***************************************************************************)
(* _FSAStructuralEqualityReport                                            *)
(***************************************************************************)
\* maxwidth: int = 80
DefaultMaxWidth == 80

\* __init__
Report(report_sections, t, maxwidth) ==
    [type |-> "_FSAStructuralEqualityReport", report_sections |-> report_sections,
     title |-> t, maxwidth |-> maxwidth]

\* isinstance(other, _FSAStructuralEqualityReport)
IsReport(other) == other.type = "_FSAStructuralEqualityReport"

\* the property structurally_equal
structurally_equal(self) == Len(self.report_sections) = 0

\* set(list)
ToSet(list) == {list[n] : n \in DOMAIN list}

\* __eq__ comparing each section's messages as lists, position by position
ReportEq_Positional(self, other) ==
    IF ~IsReport(other) THEN FALSE
    ELSE /\ keys(self.report_sections) = keys(other.report_sections)
         /\ \A key \in keys(self.report_sections) :
                values(self.report_sections, key) = values(other.report_sections, key)

\* __eq__
ReportEq(self, other) ==
    IF ~IsReport(other) THEN FALSE
    ELSE /\ keys(self.report_sections) = keys(other.report_sections)
         /\ \A key \in keys(self.report_sections) :
                ToSet(values(self.report_sections, key))
                    = ToSet(values(other.report_sections, key))

(***************************************************************************)
(* _arcs                                                                   *)
(***************************************************************************)
\* the set of (i, ab, j, w) of the nested table fst.delta
arcs(fst) ==
    UNION {UNION {{<<i, ab, j, fst.delta[i][ab][j]>> : j \in DOMAIN fst.delta[i][ab]}
                  : ab \in DOMAIN fst.delta[i]} : i \in DOMAIN fst.delta}

(***************************************************************************)
(* fsa_structural_equality_report                                          *)
(***************************************************************************)
\* if fsa1.R != fsa2.R
CheckSemiring(m, a, b) ==
    IF a.R # b.R
    THEN append(m, "semiring", <<"Semirings do not match", a.R, b.R>>)
    ELSE m

\* if fsa1.Sigma != fsa2.Sigma
CheckSigma(m, a, b) ==
    IF a.Sigma # b.Sigma
    THEN append(m, "alphabet", <<"Input alphabets do not match", a.Sigma, b.Sigma>>)
    ELSE m

\* if isinstance(fsa1, FST) and isinstance(fsa2, FST) and fsa1.Omega != fsa2.Omega
CheckOmega(m, a, b) ==
    IF IsFST(a) /\ IsFST(b) /\ a.Omega # b.Omega
    THEN append(m, "alphabet", <<"Output alphabets do not match", a.Omega, b.Omega>>)
    ELSE m

\* the states check without its second direction (fsa2.Q - fsa1.Q)
CheckStates_OneWay(m, a, b) ==
    IF Cardinality(a.Q \ b.Q) > 0
    THEN append(m, "states", <<"States in FST1 but not in FST2", a.Q \ b.Q>>)
    ELSE m

\* missing_states1 = fsa1.Q - fsa2.Q, missing_states2 = fsa2.Q - fsa1.Q
CheckStates(m, a, b) ==
    LET missing_states1 == a.Q \ b.Q
        missing_states2 == b.Q \ a.Q
        m1 == IF Cardinality(missing_states1) > 0
              THEN append(m, "states", <<"States in FST1 but not in FST2", missing_states1>>)
              ELSE m
    IN  IF Cardinality(missing_states2) > 0
        THEN append(m1, "states", <<"States in FST2 but not in FST1", missing_states2>>)
        ELSE m1

\* the automaton after the lookups of the states S in both its weight
\* mappings: a mapping with the implicit default keeps the zero it gave for a
\* state it did not hold; a mapping without it is left as it was
Touched(fsa, S) ==
    IF fsa.implicit_default
    THEN [fsa EXCEPT !.lam = [q \in DOMAIN fsa.lam \cup S |-> Lookup(fsa.lam, q, fsa)],
                     !.rho = [q \in DOMAIN fsa.rho \cup S |-> Lookup(fsa.rho, q, fsa)]]
    ELSE fsa

\* for q in fsa1.Q: one of the four lookups of the loop body raises
StateWeightsRaise(a, b) ==
    \E q \in a.Q :
        Raises \in {Lookup(a.lam, q, a), Lookup(b.lam, q, b),
                    Lookup(a.rho, q, a), Lookup(b.rho, q, b)}

\* the loop body with the final-weight test reading the initial weights
StateWeightsBody_FinalReadsInitial(m, a, b, q) ==
    LET m1 == IF ne(Lookup(a.lam, q, a), Lookup(b.lam, q, b))
              THEN append(m, "state_weights",
                          <<"Initial weight for state does not match", q,
                            Lookup(a.lam, q, a), Lookup(b.lam, q, b)>>)
              ELSE m
    IN  IF ne(Lookup(a.lam, q, a), Lookup(b.lam, q, b))
        THEN append(m1, "state_weights",
                    <<"Final weight for state does not match", q,
                      Lookup(a.rho, q, a), Lookup(b.rho, q, b)>>)
        ELSE m1

\* the loop body with the initial-weight test reading fsa2's final weight
StateWeightsBody_InitialAgainstFinal(m, a, b, q) ==
    LET m1 == IF ne(Lookup(a.lam, q, a), Lookup(b.rho, q, b))
              THEN append(m, "state_weights",
                          <<"Initial weight for state does not match", q,
                            Lookup(a.lam, q, a), Lookup(b.rho, q, b)>>)
              ELSE m
    IN  IF ne(Lookup(a.rho, q, a), Lookup(b.rho, q, b))
        THEN append(m1, "state_weights",
                    <<"Final weight for state does not match", q,
                      Lookup(a.rho, q, a), Lookup(b.rho, q, b)>>)
        ELSE m1

\* the loop body skipping a state that fsa2 does not have
StateWeightsBody_SkipsAbsent(m, a, b, q) ==
    LET m1 == IF q \in b.Q /\ ne(Lookup(a.lam, q, a), Lookup(b.lam, q, b))
              THEN append(m, "state_weights",
                          <<"Initial weight for state does not match", q,
                            Lookup(a.lam, q, a), Lookup(b.lam, q, b)>>)
              ELSE m
    IN  IF q \in b.Q /\ ne(Lookup(a.rho, q, a), Lookup(b.rho, q, b))
        THEN append(m1, "state_weights",
                    <<"Final weight for state does not match", q,
                      Lookup(a.rho, q, a), Lookup(b.rho, q, b)>>)
        ELSE m1

\* the body of for q in fsa1.Q, for one q
StateWeightsBody(m, a, b, q) ==
    LET m1 == IF ne(Lookup(a.lam, q, a), Lookup(b.lam, q, b))
              THEN append(m, "state_weights",
                          <<"Initial weight for state does not match", q,
                            Lookup(a.lam, q, a), Lookup(b.lam, q, b)>>)
              ELSE m
    IN  IF ne(Lookup(a.rho, q, a), Lookup(b.rho, q, b))
        THEN append(m1, "state_weights",
                    <<"Final weight for state does not match", q,
                      Lookup(a.rho, q, a), Lookup(b.rho, q, b)>>)
        ELSE m1

\* for q in fsa1.Q, the set iterated in the order qs
RECURSIVE CheckStateWeights(_, _, _, _)
CheckStateWeights(m, a, b, qs) ==
    IF qs = <<>> THEN m
    ELSE CheckStateWeights(StateWeightsBody(m, a, b, Head(qs)), a, b, Tail(qs))

\* _unweighted
unweighted(arcset) == {<<arc[1], arc[2], arc[3]>> : arc \in arcset}

\* the arcs check with the two differences under each other's message
CheckArcs_Crossed(m, arcs1, arcs2) ==
    LET missing_arcs1 == unweighted(arcs1) \ unweighted(arcs2)
        missing_arcs2 == unweighted(arcs2) \ unweighted(arcs1)
        m1 == IF Cardinality(missing_arcs1) > 0
              THEN append(m, "arcs", <<"Missing arcs in FST1", missing_arcs1>>)
              ELSE m
    IN  IF Cardinality(missing_arcs2) > 0
        THEN append(m1, "arcs", <<"Missing arcs in FST2", missing_arcs2>>)
        ELSE m1

\* the arcs check without its second direction (arcs of fsa1 missing in fsa2)
CheckArcs_OneWay(m, arcs1, arcs2) ==
    IF Cardinality(unweighted(arcs2) \ unweighted(arcs1)) > 0
    THEN append(m, "arcs", <<"Missing arcs in FST1", unweighted(arcs2) \ unweighted(arcs1)>>)
    ELSE m

\* missing_arcs1, missing_arcs2 and their messages
CheckArcs(m, arcs1, arcs2) ==
    LET missing_arcs1 == unweighted(arcs2) \ unweighted(arcs1)
        missing_arcs2 == unweighted(arcs1) \ unweighted(arcs2)
        m1 == IF Cardinality(missing_arcs1) > 0
              THEN append(m, "arcs", <<"Missing arcs in FST1", missing_arcs1>>)
              ELSE m
    IN  IF Cardinality(missing_arcs2) > 0
        THEN append(m1, "arcs", <<"Missing arcs in FST2", missing_arcs2>>)
        ELSE m1

\* _arc_weight_mismatch giving the two weights in the other order
arc_weight_mismatch_WeightsSwapped(arcs1, arcs2) ==
    {<<<<p[1][1], p[1][2], p[1][3]>>, p[2][4], p[1][4]>> :
        p \in {x \in arcs1 \X arcs2 :
                  /\ <<x[1][1], x[1][2], x[1][3]>> = <<x[2][1], x[2][2], x[2][3]>>
                  /\ ne(x[1][4], x[2][4])}}

\* _arc_weight_mismatch: every pair of arcs, one of each side
arc_weight_mismatch(arcs1, arcs2) ==
    {<<<<p[1][1], p[1][2], p[1][3]>>, p[1][4], p[2][4]>> :
        p \in {x \in arcs1 \X arcs2 :
                  /\ <<x[1][1], x[1][2], x[1][3]>> = <<x[2][1], x[2][2], x[2][3]>>
                  /\ ne(x[1][4], x[2][4])}}

\* for arc, w1, w2 in arc_weight_mismatches, the set iterated in the order ws
RECURSIVE CheckArcWeights(_, _)
CheckArcWeights(m, ws) ==
    IF ws = <<>> THEN m
    ELSE CheckArcWeights(
            append(m, "arc_weights",
                   <<"Weight for arc does not match", Head(ws)[1], Head(ws)[2], Head(ws)[3]>>),
            Tail(ws))

\* the exception a lookup that raises sends out of the function
KeyError == [type |-> Raises]

\* the function: qs and ws are the orders in which the two sets are iterated
fsa_structural_equality_report(a, b, t, qs, ws) ==
    IF StateWeightsRaise(a, b) THEN KeyError
    ELSE LET m1 == CheckSemiring(<<>>, a, b)
             m2 == CheckSigma(m1, a, b)
             m3 == CheckOmega(m2, a, b)
             m4 == CheckStates(m3, a, b)
             m5 == CheckStateWeights(m4, a, b, qs)
             m6 == CheckArcs(m5, arcs(a), arcs(b))
             m7 == CheckArcWeights(m6, ws)
         IN  Report(m7, t, DefaultMaxWidth)

\* the results of one call, over the iteration orders of its two sets
Calls(a, b, t) ==
    {fsa_structural_equality_report(a, b, t, qs, ws) :
        qs \in Perms(a.Q), ws \in Perms(arc_weight_mismatch(arcs(a), arcs(b)))}

(***************************************************************************)
(* The operands: every pair of automata that differ in at most MaxDiff      *)
(* places.                                                                  *)
(***************************************************************************)
\* the arc identities (source, label, target) of an automaton and their weights
Ids(a) ==
    UNION {UNION {{<<i, ab, j>> : j \in DOMAIN a.delta[i][ab]}
                  : ab \in DOMAIN a.delta[i]} : i \in DOMAIN a.delta}

WeightOf(a, id) == a.delta[id[1]][id[2]][id[3]]

B2N(x) == IF x THEN 1 ELSE 0

\* the initial and final weight of a state, zero when it was given none
InitialWeight(a, q) == IF q \in DOMAIN a.lam THEN a.lam[q] ELSE Zero(a.R)
FinalWeight(a, q) == IF q \in DOMAIN a.rho THEN a.rho[q] ELSE Zero(a.R)

\* the number of places in which two automata differ, weights compared by the
\* values they hold so that two semirings differ in one place
Diff(a, b) ==
    B2N(a.kind # b.kind) + B2N(a.R # b.R) + B2N(a.Sigma # b.Sigma)
    + B2N(IsFST(a) /\ IsFST(b) /\ a.Omega # b.Omega)
    + Cardinality((a.Q \ b.Q) \cup (b.Q \ a.Q))
    + Cardinality({q \in a.Q \cap b.Q :
                      score(InitialWeight(a, q)) # score(InitialWeight(b, q))})
    + Cardinality({q \in a.Q \cap b.Q :
                      score(FinalWeight(a, q)) # score(FinalWeight(b, q))})
    + Cardinality((Ids(a) \ Ids(b)) \cup (Ids(b) \ Ids(a)))
    + Cardinality({id \in Ids(a) \cap Ids(b) :
                      score(WeightOf(a, id)) # score(WeightOf(b, id))})

\* the pairs of operands of the bounded universe
BoundedPairs == {p \in Automata \X Automata : Diff(p[1], p[2]) <= MaxDiff}

(***************************************************************************)
(* The automata the tests build (_make_fsa1, _make_fsa2, _make_fst1,        *)
(* _make_fst2) and the pairs they compare.  An arc puts its symbols in the  *)
(* alphabets; "eps" is the empty symbol.                                    *)
(***************************************************************************)
make_fsa1 ==
    [kind |-> "FSA", implicit_default |-> TRUE, R |-> "Boolean", Sigma |-> {"eps", "a", "b", "c"}, Q |-> {0, 1, 2},
     lam |-> (0 :> "True"), rho |-> (2 :> "True"),
     delta |-> Nested(
        [t \in {<<0, <<"eps">>, 0>>, <<0, <<"b">>, 0>>, <<0, <<"c">>, 0>>, <<0, <<"a">>, 2>>,
                <<2, <<"a">>, 0>>, <<1, <<"a">>, 0>>, <<2, <<"c">>, 1>>, <<1, <<"eps">>, 2>>,
                <<1, <<"b">>, 2>>, <<1, <<"c">>, 2>>} |-> "True"])]

make_fsa2 ==
    [kind |-> "FSA", implicit_default |-> TRUE, R |-> "Boolean", Sigma |-> {"eps", "a", "b", "c", "d"}, Q |-> {0, 1, 2, 3},
     lam |-> (0 :> "True"), rho |-> (2 :> "True"),
     delta |-> Nested(
        [t \in {<<0, <<"eps">>, 0>>, <<0, <<"c">>, 0>>, <<0, <<"a">>, 2>>, <<2, <<"a">>, 0>>,
                <<1, <<"a">>, 0>>, <<2, <<"c">>, 1>>, <<1, <<"eps">>, 2>>, <<1, <<"b">>, 2>>,
                <<1, <<"c">>, 2>>, <<1, <<"d">>, 3>>} |->
            IF t = <<2, <<"a">>, 0>> THEN "False" ELSE "True"])]

make_fst1 ==
    [kind |-> "FST", implicit_default |-> TRUE, R |-> "Real", Sigma |-> {"eps", "a", "b"}, Omega |-> {"eps", "a", "b"},
     Q |-> {0, 1}, lam |-> (0 :> "29.0"), rho |-> (1 :> "2.0"),
     delta |-> Nested(
        <<0, <<"eps", "b">>, 0>> :> "0.0" @@ <<0, <<"b", "eps">>, 1>> :> "35.0"
        @@ <<1, <<"b", "b">>, 0>> :> "43.0" @@ <<1, <<"a", "b">>, 0>> :> "25.0"
        @@ <<1, <<"eps", "a">>, 1>> :> "25.0")]

make_fst2 ==
    [kind |-> "FST", implicit_default |-> TRUE, R |-> "Real", Sigma |-> {"eps", "a", "b"}, Omega |-> {"eps", "a", "b"},
     Q |-> {0, 1, 2}, lam |-> (0 :> "8.0"), rho |-> (1 :> "2.5"),
     delta |-> Nested(
        <<0, <<"eps", "b">>, 0>> :> "0.0" @@ <<0, <<"b", "eps">>, 1>> :> "35.0"
        @@ <<1, <<"b", "b">>, 0>> :> "43.1" @@ <<1, <<"a", "a">>, 0>> :> "25.0"
        @@ <<1, <<"eps", "a">>, 1>> :> "25.0" @@ <<0, <<"b", "b">>, 1>> :> "35.0"
        @@ <<2, <<"eps", "eps">>, 2>> :> "0.0")]

\* the pairs the tests compare
TestPairs == {<<make_fsa1, make_fsa2>>, <<make_fst1, make_fst2>>, <<make_fsa1, make_fst1>>}

(***************************************************************************)
(* Hand-built reports, for __eq__: dicts with distinct keys whose lists     *)
(* hold at most MaxMsgs messages.                                           *)
(***************************************************************************)
Lists == UNION {[1..n -> Messages] : n \in 0..MaxMsgs}

Dicts ==
    UNION {{[n \in DOMAIN ks |-> [key |-> ks[n], values |-> ls[n]]] :
               ls \in [DOMAIN ks -> Lists]}
           : ks \in UNION {Perms(K) : K \in SUBSET Categories}}

\* title and maxwidth of a hand-built report: the defaults, or both given
Metas == {<<NoTitle, DefaultMaxWidth>>, <<"t", 40>>}

\* a Python bool as a string
PyBool(b) == IF b THEN "True" ELSE "False"

\* a value that is no report
NotAReport == [type |-> "str"]

(***************************************************************************)
(* The program: the calls the tests make on a pair of operands.            *)
(***************************************************************************)
\* no value yet
NoReport == [type |-> "NoneType"]

Init ==
    /\ \E p \in BoundedPairs \cup TestPairs : fsa1 = p[1] /\ fsa2 = p[2]
    /\ pc = "ready"
    /\ report = NoReport
    /\ swapped = NoReport
    /\ selfrep = NoReport
    /\ r1 = NoReport
    /\ r2 = NoReport
    /\ eq12 = "unset"
    /\ eq21 = "unset"

\* report = fsa_structural_equality_report(fsa1, fsa2); the lookups of the
\* state-weight loop leave their defaults in the operands' mappings; an
\* exception ends the test that made the call
Compare ==
    /\ pc = "ready"
    /\ report' \in Calls(fsa1, fsa2, NoTitle)
    /\ pc' = IF report'.type = "KeyError" THEN "raised" ELSE "compared"
    /\ fsa1' = Touched(fsa1, fsa1.Q)
    /\ fsa2' = Touched(fsa2, fsa1.Q)
    /\ UNCHANGED <<swapped, selfrep, r1, r2, eq12, eq21>>

\* fsa_structural_equality_report(fsa2, fsa1)
CompareSwapped ==
    /\ pc = "compared"
    /\ swapped = NoReport
    /\ swapped' \in Calls(fsa2, fsa1, NoTitle)
    /\ pc' = IF swapped'.type = "KeyError" THEN "raised" ELSE pc
    /\ fsa1' = Touched(fsa1, fsa2.Q)
    /\ fsa2' = Touched(fsa2, fsa2.Q)
    /\ UNCHANGED <<report, selfrep, r1, r2, eq12, eq21>>

Next == Compare \/ CompareSwapped

Spec == Init /\ [][Next]_vars

(***************************************************************************)
(* The program on automata whose weight mappings have no implicit default:  *)
(* the same calls on a pair of operands of the bounded universe, their      *)
(* weight mappings without implicit default.                                *)
(***************************************************************************)
InitWithoutDefault ==
    /\ \E p \in BoundedPairs : fsa1 = WithoutDefault(p[1]) /\ fsa2 = WithoutDefault(p[2])
    /\ pc = "ready"
    /\ report = NoReport
    /\ swapped = NoReport
    /\ selfrep = NoReport
    /\ r1 = NoReport
    /\ r2 = NoReport
    /\ eq12 = "unset"
    /\ eq21 = "unset"

SpecWithoutDefault == InitWithoutDefault /\ [][Next]_vars

(***************************************************************************)
(* The program of the comparison of an automaton with itself: the call the *)
(* tests make with one automaton as both operands.                         *)
(***************************************************************************)
InitSelf ==
    /\ fsa1 \in Automata \cup {make_fsa1, make_fst1}
    /\ fsa2 = fsa1
    /\ pc = "ready"
    /\ report = NoReport
    /\ swapped = NoReport
    /\ selfrep = NoReport
    /\ r1 = NoReport
    /\ r2 = NoReport
    /\ eq12 = "unset"
    /\ eq21 = "unset"

\* fsa_structural_equality_report(fsa1, fsa1): both operands are the one
\* automaton
CompareSelf ==
    /\ pc = "ready"
    /\ selfrep = NoReport
    /\ selfrep' \in Calls(fsa1, fsa1, NoTitle)
    /\ pc' = IF selfrep'.type = "KeyError" THEN "raised" ELSE "compared"
    /\ fsa1' = Touched(fsa1, fsa1.Q)
    /\ fsa2' = fsa1'
    /\ UNCHANGED <<report, swapped, r1, r2, eq12, eq21>>

NextSelf == CompareSelf

SpecSelf == InitSelf /\ [][NextSelf]_vars

(***************************************************************************)
(* The program of report equality: r1 == r2 and r2 == r1 on two reports     *)
(* built by hand.                                                           *)
(***************************************************************************)
InitEq ==
    /\ r1 \in {Report(d, NoTitle, DefaultMaxWidth) : d \in Dicts}
    /\ r2 \in {Report(d, meta[1], meta[2]) : d \in Dicts, meta \in Metas} \cup {NotAReport}
    /\ eq12 = "unset"
    /\ eq21 = "unset"
    /\ fsa1 = NoReport
    /\ fsa2 = NoReport
    /\ pc = "ready"
    /\ report = NoReport
    /\ swapped = NoReport
    /\ selfrep = NoReport

\* r1 == r2
Eq12 ==
    /\ eq12 = "unset"
    /\ eq12' = PyBool(ReportEq(r1, r2))
    /\ UNCHANGED <<fsa1, fsa2, pc, report, swapped, selfrep, r1, r2, eq21>>

\* r2 == r1
Eq21 ==
    /\ eq21 = "unset"
    /\ IsReport(r2)
    /\ eq21' = PyBool(ReportEq(r2, r1))
    /\ UNCHANGED <<fsa1, fsa2, pc, report, swapped, selfrep, r1, r2, eq12>>

NextEq == Eq12 \/ Eq21

SpecEq == InitEq /\ [][NextEq]_vars

(***************************************************************************)
(* What the properties below speak of.                                     *)
(***************************************************************************)
\* the call has been made
Called(r) == r.type # "NoneType"

\* what a caller sees of a call: the verdict of the report, or the exception
Verdict(r) == IF IsReport(r) THEN PyBool(structurally_equal(r)) ELSE r.type

\* the messages of one category that a call gave its caller: those of the
\* returned report, none when the category is absent, and none when the call
\* raised and returned no report
Section(r, key) ==
    IF IsReport(r) /\ key \in keys(r.report_sections)
    THEN values(r.report_sections, key)
    ELSE <<>>

\* a list holds exactly the messages of the set S, each once
HoldsExactly(list, S) ==
    /\ {list[n] : n \in DOMAIN list} = S
    /\ Len(list) = Cardinality(S)

SameArcs(a, b) ==
    /\ Ids(a) = Ids(b)
    /\ \A id \in Ids(a) : WeightOf(a, id) = WeightOf(b, id)

SameHeader(a, b) ==
    /\ a.R = b.R
    /\ a.Sigma = b.Sigma
    /\ (a.kind = "FST" /\ b.kind = "FST") => a.Omega = b.Omega

\* none of the six differences exists
StructurallySame(a, b) ==
    /\ SameHeader(a, b)
    /\ a.Q = b.Q
    /\ \A q \in a.Q :
           InitialWeight(a, q) = InitialWeight(b, q) /\ FinalWeight(a, q) = FinalWeight(b, q)
    /\ SameArcs(a, b)

\* a and b are identical except for the final weight of exactly one state
OnlyOneFinalWeightDiffers(a, b) ==
    /\ a.kind = b.kind
    /\ SameHeader(a, b)
    /\ a.Q = b.Q
    /\ \A q \in a.Q : InitialWeight(a, q) = InitialWeight(b, q)
    /\ Cardinality({q \in a.Q : score(FinalWeight(a, q)) # score(FinalWeight(b, q))}) = 1
    /\ SameArcs(a, b)

\* the state_weights messages for the states of the set S: one per state and
\* role in which the two weights differ
StateWeightMessages(a, b, S) ==
    {<<"Initial weight for state does not match", q, InitialWeight(a, q), InitialWeight(b, q)>> :
        q \in {x \in S : score(InitialWeight(a, x)) # score(InitialWeight(b, x))}}
    \cup
    {<<"Final weight for state does not match", q, FinalWeight(a, q), FinalWeight(b, q)>> :
        q \in {x \in S : score(FinalWeight(a, x)) # score(FinalWeight(b, x))}}

\* the arcs messages of a report of (a, b): one per non-empty direction
ArcMessages(a, b) ==
    {<<"Missing arcs in FST1", S>> : S \in {Ids(b) \ Ids(a)} \ {{}}}
    \cup
    {<<"Missing arcs in FST2", S>> : S \in {Ids(a) \ Ids(b)} \ {{}}}

\* the arc_weights messages a join of the two tables on the arc identity gives
JoinMessages(a, b) ==
    {<<"Weight for arc does not match", id, WeightOf(a, id), WeightOf(b, id)>> :
        id \in {x \in Ids(a) \cap Ids(b) : score(WeightOf(a, x)) # score(WeightOf(b, x))}}

\* what the call on (a, b) gave its caller, category by category
StateWeightsAsClaimed(r, a, b, S) ==
    HoldsExactly(Section(r, "state_weights"), StateWeightMessages(a, b, S))
ArcsAsClaimed(r, a, b) == HoldsExactly(Section(r, "arcs"), ArcMessages(a, b))
ArcWeightsAsClaimed(r, a, b) == HoldsExactly(Section(r, "arc_weights"), JoinMessages(a, b))

(***************************************************************************)
(* The properties.                                                         *)
(***************************************************************************)

\* C1: for two automata of the same kind, the verdict of
\* fsa_structural_equality_report(fsa1, fsa2) is True (a report with no
\* category is returned) if and only if they have the same semiring, the same
\* input alphabet (and output alphabet, for transducers), the same states,
\* the same initial and final weight on every state and the same arcs with
\* the same weights.
C1_EqualIffSame ==
    (Called(report) /\ fsa1.kind = fsa2.kind)
        => ((IsReport(report) /\ structurally_equal(report)) <=> StructurallySame(fsa1, fsa2))

\* C1, its case: two automata with states and arcs compared and found equal
C1_Witness ==
    /\ IsReport(report) /\ structurally_equal(report)
    /\ fsa1.kind = fsa2.kind
    /\ fsa1.Q = States
    /\ Ids(fsa1) # {}

\* C2: for two automata of the same kind, the verdict of the comparison of
\* (fsa1, fsa2) equals the verdict of the comparison of (fsa2, fsa1), also
\* when their state sets differ.
C2_Symmetry ==
    (Called(swapped) /\ fsa1.kind = fsa2.kind) => Verdict(report) = Verdict(swapped)

\* C2, its case: both calls made on automata of one kind whose state sets
\* differ, a state of fsa2 alone carrying a weight, so that the two reports
\* differ in their state_weights messages
C2_Witness ==
    /\ IsReport(report) /\ IsReport(swapped)
    /\ fsa1.kind = fsa2.kind
    /\ \E q \in fsa2.Q \ fsa1.Q : score(FinalWeight(fsa2, q)) # 0
    /\ Section(report, "state_weights") = <<>>
    /\ Section(swapped, "state_weights") # <<>>

\* C3: the comparison of an automaton with itself returns a report with no
\* category.
C3_Reflexive ==
    Called(selfrep) => (IsReport(selfrep) /\ selfrep.report_sections = <<>>)

\* C3, its case: a transducer with states and arcs compared with itself
C3_Witness ==
    /\ IsReport(selfrep)
    /\ fsa1.kind = "FST"
    /\ fsa1.Q = States
    /\ Ids(fsa1) # {}

\* C4: the comparison of an acceptor with a transducer, in either order, never
\* has the verdict True.
C4_CrossType ==
    (Called(report) /\ fsa1.kind # fsa2.kind)
        => ~(IsReport(report) /\ structurally_equal(report))

\* the weight mappings of the automaton are defined on exactly its own state
\* set and have no implicit default for an absent state
NoImplicitDefault(fsa) ==
    /\ ~fsa.implicit_default
    /\ DOMAIN fsa.lam = fsa.Q
    /\ DOMAIN fsa.rho = fsa.Q

\* C5: for automata whose initial- and final-weight mappings are defined on
\* exactly their own state sets, with no implicit default for an absent state,
\* the comparison never fails: every call returns a report, also when the
\* state sets of the two automata differ.
C5_Total ==
    (NoImplicitDefault(fsa1) /\ NoImplicitDefault(fsa2))
        => /\ Called(report) => IsReport(report)
           /\ Called(swapped) => IsReport(swapped)

\* C6, as stated: the state_weights messages of the call are, each once, the
\* initial and final weight mismatches of the states in both state sets, and
\* there is no message for a state of only one automaton.
C6_StateWeightsOverIntersection ==
    Called(report) => StateWeightsAsClaimed(report, fsa1, fsa2, fsa1.Q \cap fsa2.Q)

\* C6, as the code has it: the state_weights messages of the call are, each
\* once, the initial and final weight mismatches of the states of the first
\* operand, a state the second operand does not have read there as the zero
\* of its semiring; there is no message for a state of the second operand
\* alone.
C6_StateWeightsOverFirstOperand ==
    Called(report)
        => /\ StateWeightsAsClaimed(report, fsa1, fsa2, fsa1.Q)
           /\ \A n \in DOMAIN Section(report, "state_weights") :
                  Section(report, "state_weights")[n][2] \in fsa1.Q

\* C6, its case: a message for a state of fsa1 alone, and none for a state of
\* fsa2 alone that carries a weight
C6_Witness ==
    /\ IsReport(report)
    /\ \E n \in DOMAIN Section(report, "state_weights") :
           Section(report, "state_weights")[n][2] \in fsa1.Q \ fsa2.Q
    /\ \E q \in fsa2.Q \ fsa1.Q : score(InitialWeight(fsa2, q)) # 0

\* C7: when the two automata are identical except for the final weight of
\* exactly one state q, the report holds exactly one category, state_weights,
\* with exactly one message, the final-weight message for q.
C7_CategoryIsolation ==
    (Called(report) /\ OnlyOneFinalWeightDiffers(fsa1, fsa2))
        => /\ IsReport(report)
           /\ \E q \in fsa1.Q :
                report.report_sections =
                    <<[key |-> "state_weights",
                       values |-> <<<<"Final weight for state does not match", q,
                                      FinalWeight(fsa1, q), FinalWeight(fsa2, q)>>>>]>>

\* C7, its case: such a pair, with arcs, has been compared
C7_Witness ==
    /\ IsReport(report)
    /\ OnlyOneFinalWeightDiffers(fsa1, fsa2)
    /\ fsa1.Q = States
    /\ Ids(fsa1) # {}

\* C8: r1 == r2 holds if and only if the two reports have the same set of
\* categories and, per category, the same set of messages, whatever the order
\* of messages and categories, the title and the width; and r2 == r1 agrees.
C8_ReportEquality ==
    (eq12 # "unset" /\ IsReport(r2))
        => /\ eq12 = PyBool(
                {<<r1.report_sections[n].key,
                   {r1.report_sections[n].values[k] : k \in DOMAIN r1.report_sections[n].values}>>
                        : n \in DOMAIN r1.report_sections}
                =
                {<<r2.report_sections[n].key,
                   {r2.report_sections[n].values[k] : k \in DOMAIN r2.report_sections[n].values}>>
                        : n \in DOMAIN r2.report_sections})
           /\ eq21 # "unset" => eq21 = eq12

\* C8, its case: two equal reports that differ in the order of categories and
\* of messages, in title and in width
C8_Witness ==
    /\ eq12 = "True" /\ eq21 = "True"
    /\ Len(r1.report_sections) = 2
    /\ r1.report_sections[1].key # r2.report_sections[1].key
    /\ \E n \in 1..2 :
           /\ Len(r1.report_sections[n].values) = 2
           /\ r1.report_sections[n].values[1] # r1.report_sections[n].values[2]
    /\ \A n, k \in 1..2 :
           r1.report_sections[n].key = r2.report_sections[k].key
               => r1.report_sections[n].values # r2.report_sections[k].values
    /\ r1.title # r2.title
    /\ r1.maxwidth # r2.maxwidth

\* C9: the arcs messages of the call are exactly: "Missing arcs in FST2"
\* listing the identities only fsa1 has, when there are any, and "Missing arcs
\* in FST1" listing those only fsa2 has, when there are any; and the call on
\* (fsa2, fsa1) gives them under the swapped direction.
C9_DirectionalArcs ==
    /\ Called(report) => ArcsAsClaimed(report, fsa1, fsa2)
    /\ Called(swapped) => ArcsAsClaimed(swapped, fsa2, fsa1)

\* C9, its case: both calls made on automata each of which has an arc the
\* other does not have
C9_Witness ==
    /\ IsReport(report) /\ IsReport(swapped)
    /\ Ids(fsa1) \ Ids(fsa2) # {}
    /\ Ids(fsa2) \ Ids(fsa1) # {}
    /\ Len(Section(report, "arcs")) = 2

\* C10: the arc_weights messages of the call are, each once, those of the join
\* of the two transition tables on the arc identity: one per identity held by
\* both automata with different weights, naming fsa1's weight first.
C10_ArcWeightsAsJoin ==
    Called(report) => ArcWeightsAsClaimed(report, fsa1, fsa2)

\* C10, its case: a call on automata with an arc of different weights in the
\* two, an arc of the same weight in the two and an arc of one alone
C10_Witness ==
    /\ IsReport(report)
    /\ Section(report, "arc_weights") # <<>>
    /\ \E id \in Ids(fsa1) \cap Ids(fsa2) : WeightOf(fsa1, id) = WeightOf(fsa2, id)
    /\ Ids(fsa1) # Ids(fsa2)

====
